---- MODULE Spec2Model ----
(***************************************************************************)
(* A model of the Virgule core, its bus, the Device contract and the       *)
(* Memory device (src/src/virgule.js).                                     *)
(*                                                                         *)
(* Numbers.  The program computes with JavaScript numbers and reduces them *)
(* to 32 bits with int32.signed / int32.unsigned and the bitwise           *)
(* operators.  A number n is kept exactly, as the pair <<hi, lo>> with     *)
(* n = hi * 2^16 + lo and 0 <= lo < 2^16 (hi may be negative or exceed     *)
(* 2^16: pc + 4 can be 2^32, an ALU result can be negative).  The pair is  *)
(* canonical, so equality of pairs is equality of numbers.                 *)
(***************************************************************************)
EXTENDS Integers, Sequences, FiniteSets, TLC

Base == 2^16

HalfBase == 2^15

Norm(h, l) == <<h + (l \div Base), l % Base>>

\* The number of a small integer literal of the source (4, size - 1, 8 * i).
N(i) == Norm(0, i)

\* JS a + b
Plus(a, b) == Norm(a[1] + b[1], a[2] + b[2])

\* JS a - b
Minus(a, b) == Norm(a[1] - b[1], a[2] - b[2])

\* JS a < b
Less(a, b) == a[1] < b[1] \/ (a[1] = b[1] /\ a[2] < b[2])

\* JS a <= b
LessEq(a, b) == a = b \/ Less(a, b)

(***************************************************************************)
(* int32.js (not under src/): the contract of spec section 4.1.            *)
(***************************************************************************)

\* int32.signed(x): the low 32 bits as a two's-complement signed value.
signed(n) ==
    LET h == n[1] % Base
    IN  <<IF h >= HalfBase THEN h - Base ELSE h, n[2]>>

\* int32.unsigned(x): the low 32 bits as an unsigned value.
unsigned(n) == <<n[1] % Base, n[2]>>

(***************************************************************************)
(* The native 32-bit operators of JavaScript used by the source.           *)
(***************************************************************************)

\* Bit i of a 16-bit limb.
Bit(u, i) == (u \div (2^i)) % 2

BitOp(op, p, q) ==
    CASE op = "and" -> p * q
      [] op = "or"  -> IF p + q > 0 THEN 1 ELSE 0
      [] op = "xor" -> (p + q) % 2

\* Bits lo .. lo + 3 of the bitwise operation on two 16-bit limbs.
Nibble(op, u, v, lo) ==
    (2^lo) * (BitOp(op, Bit(u, lo), Bit(v, lo))
              + 2 * BitOp(op, Bit(u, lo + 1), Bit(v, lo + 1))
              + 4 * BitOp(op, Bit(u, lo + 2), Bit(v, lo + 2))
              + 8 * BitOp(op, Bit(u, lo + 3), Bit(v, lo + 3)))

Bits16(op, u, v) ==
    Nibble(op, u, v, 0) + Nibble(op, u, v, 4) + Nibble(op, u, v, 8) + Nibble(op, u, v, 12)

\* a & b, a | b, a ^ b: both operands to 32 bits, the result a signed int32.
Bitwise(op, a, b) ==
    LET ua == unsigned(a)
        ub == unsigned(b)
    IN  signed(<<Bits16(op, ua[1], ub[1]), Bits16(op, ua[2], ub[2])>>)

\* The shift count of <<, >> and >>>: the low 5 bits of the right operand.
ShiftCount(b) == unsigned(b)[2] % 32

\* u * 2^k modulo 2^32, for an unsigned 32-bit u and 0 <= k < 32.
DoubleBy(u, k) ==
    IF k >= 16 THEN <<(u[2] * (2^(k - 16))) % Base, 0>>
    ELSE <<((u[1] % (2^(16 - k))) * (2^k) + ((u[2] * (2^k)) \div Base)) % Base,
           (u[2] * (2^k)) % Base>>

\* The floor of n / 2^k, for 0 <= k < 32.
HalveBy(n, k) ==
    IF k >= 16 THEN Norm(0, n[1] \div (2^(k - 16)))
    ELSE Norm(n[1] \div (2^k), (n[1] % (2^k)) * (2^(16 - k)) + (n[2] \div (2^k)))

\* a << b
ShiftLeft(a, b) == signed(DoubleBy(unsigned(a), ShiftCount(b)))

\* a >>> b
ShiftRightLogical(a, b) == HalveBy(unsigned(a), ShiftCount(b))

\* a >> b
ShiftRightArith(a, b) == HalveBy(signed(a), ShiftCount(b))

\* value & ~3
AndNot3(value) ==
    LET u == unsigned(value)
    IN  signed(<<u[1], u[2] - (u[2] % 4)>>)

Pow2(k) == IF k < 16 THEN <<0, 2^k>> ELSE <<2^(k - 16), 0>>

\* The low k bits of an unsigned 32-bit value.
LowBits(u, k) ==
    IF k >= 32 THEN u
    ELSE IF k >= 16 THEN <<u[1] % (2^(k - 16)), u[2]>>
    ELSE <<0, u[2] % (2^k)>>

\* int32.unsignedSlice(value, hi, lo): bits [lo, hi], zero-extended.
unsignedSlice(value, hi, lo) == LowBits(HalveBy(unsigned(value), lo), hi - lo + 1)

\* int32.signedSlice(value, hi, lo): bits [lo, hi], sign-extended.
signedSlice(value, hi, lo) ==
    LET w == hi - lo + 1
        u == unsignedSlice(value, hi, lo)
    IN  IF Less(u, Pow2(w - 1)) THEN u ELSE Minus(u, Pow2(w))

(***************************************************************************)
(* binary.js (not under src/): the decoder.  spec sections 3 and 4.2 give  *)
(* the record it returns and the control tags of each kind of instruction; *)
(* the bit layout is the RV32I base encoding the spec's scenarios use      *)
(* (addi, jal, mret).  A tag the instruction does not have is "none".      *)
(***************************************************************************)

SignExtend(v, bits) == IF v >= 2^(bits - 1) THEN v - 2^bits ELSE v

Opcode(u) == u[2] % 128

Rd(u) == (u[2] \div 128) % 32

Funct3(u) == (u[2] \div 4096) % 8

Rs1(u) == (u[2] \div 32768) + 2 * (u[1] % 16)

Rs2(u) == (u[1] \div 16) % 32

Funct7(u) == u[1] \div 512

ImmI(u) == N(SignExtend(u[1] \div 16, 12))

ImmS(u) == N(SignExtend(Funct7(u) * 32 + Rd(u), 12))

ImmB(u) ==
    N(SignExtend((u[1] \div 32768) * 4096 + ((u[2] \div 128) % 2) * 2048
                 + ((u[1] \div 512) % 64) * 32 + ((u[2] \div 256) % 16) * 2, 13))

ImmU(u) == signed(<<u[1], u[2] - (u[2] % 4096)>>)

ImmJ(u) ==
    N(SignExtend((u[1] \div 32768) * (2^20) + ((u[1] % 16) * 16 + (u[2] \div 4096)) * 4096
                 + ((u[1] \div 16) % 2) * 2048 + ((u[1] \div 32) % 1024) * 2, 21))

\* The mnemonic of a word.
InstrName(u) ==
    LET op == Opcode(u)
        f3 == Funct3(u)
        f7 == Funct7(u)
    IN  CASE op = 55 -> "lui"
          [] op = 23 -> "auipc"
          [] op = 111 -> "jal"
          [] op = 103 /\ f3 = 0 -> "jalr"
          [] op = 99 /\ f3 \in {0, 1, 4, 5, 6, 7} ->
                <<"beq", "bne", "invalid", "invalid", "blt", "bge", "bltu", "bgeu">>[f3 + 1]
          [] op = 3 /\ f3 \in {0, 1, 2, 4, 5} ->
                <<"lb", "lh", "lw", "invalid", "lbu", "lhu">>[f3 + 1]
          [] op = 35 /\ f3 \in {0, 1, 2} -> <<"sb", "sh", "sw">>[f3 + 1]
          [] op = 19 /\ f3 \in {0, 2, 3, 4, 6, 7} ->
                <<"addi", "invalid", "slti", "sltiu", "xori", "invalid", "ori", "andi">>[f3 + 1]
          [] op = 19 /\ f3 = 1 /\ f7 = 0 -> "slli"
          [] op = 19 /\ f3 = 5 /\ f7 = 0 -> "srli"
          [] op = 19 /\ f3 = 5 /\ f7 = 32 -> "srai"
          [] op = 51 /\ f7 = 0 ->
                <<"add", "sll", "slt", "sltu", "xor", "srl", "or", "and">>[f3 + 1]
          [] op = 51 /\ f7 = 32 /\ f3 = 0 -> "sub"
          [] op = 51 /\ f7 = 32 /\ f3 = 5 -> "sra"
          [] u = <<12320, 115>> -> "mret"
          [] OTHER -> "invalid"

NoTags == [src1 |-> "none", src2 |-> "none", aluOp |-> "none", branch |-> "none", wbMem |-> "none"]

\* The control tags of a mnemonic (spec sections 3 and 4.6).
ActionTable(name) ==
    CASE name = "lui" -> [NoTags EXCEPT !.src2 = "imm", !.aluOp = "b", !.wbMem = "r"]
      [] name = "auipc" ->
            [NoTags EXCEPT !.src1 = "pc", !.src2 = "imm", !.aluOp = "add", !.wbMem = "r"]
      [] name = "jal" ->
            [src1 |-> "pc", src2 |-> "imm", aluOp |-> "add", branch |-> "al", wbMem |-> "pc+"]
      [] name = "jalr" ->
            [src1 |-> "x1", src2 |-> "imm", aluOp |-> "add", branch |-> "al", wbMem |-> "pc+"]
      [] name \in {"beq", "bne", "blt", "bge", "bltu", "bgeu"} ->
            [src1 |-> "pc", src2 |-> "imm", aluOp |-> "add",
             branch |-> SubSeq(name, 2, Len(name)), wbMem |-> "none"]
      [] name \in {"lb", "lh", "lw", "lbu", "lhu", "sb", "sh", "sw"} ->
            [src1 |-> "x1", src2 |-> "imm", aluOp |-> "add", branch |-> "none", wbMem |-> name]
      [] name \in {"addi", "slti", "xori", "ori", "andi", "slli", "srli", "srai"} ->
            [src1 |-> "x1", src2 |-> "imm", aluOp |-> SubSeq(name, 1, Len(name) - 1),
             branch |-> "none", wbMem |-> "r"]
      [] name = "sltiu" ->
            [src1 |-> "x1", src2 |-> "imm", aluOp |-> "sltu", branch |-> "none", wbMem |-> "r"]
      [] name \in {"add", "sub", "sll", "slt", "sltu", "xor", "srl", "sra", "or", "and"} ->
            [src1 |-> "x1", src2 |-> "x2", aluOp |-> name, branch |-> "none", wbMem |-> "r"]
      [] OTHER -> NoTags

\* The immediate of a word, by the format of its mnemonic.
Imm(name, u) ==
    CASE name \in {"lui", "auipc"} -> ImmU(u)
      [] name = "jal" -> ImmJ(u)
      [] name \in {"beq", "bne", "blt", "bge", "bltu", "bgeu"} -> ImmB(u)
      [] name \in {"sb", "sh", "sw"} -> ImmS(u)
      [] OTHER -> ImmI(u)

\* bin.fromWord(word)
fromWord(word) ==
    LET u    == unsigned(word)
        name == InstrName(u)
        tags == ActionTable(name)
    IN  [name |-> name, rd |-> Rd(u), rs1 |-> Rs1(u), rs2 |-> Rs2(u), imm |-> Imm(name, u),
         src1 |-> tags.src1, src2 |-> tags.src2, aluOp |-> tags.aluOp,
         branch |-> tags.branch, wbMem |-> tags.wbMem]

(***************************************************************************)
(* Device and Memory.  A device is a record: its address range, its byte   *)
(* array (Memory.data) and the level of its interrupt line.                *)
(***************************************************************************)

\* Device.constructor
Device(firstAddress, size) ==
    [kind         |-> "device",
     size         |-> size,
     firstAddress |-> unsigned(firstAddress),
     lastAddress  |-> unsigned(Plus(firstAddress, N(size - 1))),
     data         |-> [i \in {} |-> 0],
     pending      |-> FALSE]

\* Memory.constructor: a Uint8Array of size bytes, all zero.
Memory(firstAddress, size) ==
    [Device(firstAddress, size) EXCEPT !.kind = "memory", !.data = [i \in 0 .. size - 1 |-> 0]]

\* A mutant of accepts: only the first byte of the access is checked.
acceptsFirstByteOnly(dev, address, size) ==
    LessEq(dev.firstAddress, address) /\ LessEq(address, dev.lastAddress)

\* Device.accepts(address, size)
accepts(dev, address, size) ==
    /\ LessEq(dev.firstAddress, address)
    /\ LessEq(unsigned(Plus(address, N(size - 1))), dev.lastAddress)

\* this.data[address + i] as an operand of <<, for i < size: a read outside the
\* array is undefined, which << takes as 0.  No byte is read for i >= size.
ByteAt(data, address, i, size) ==
    LET index == Plus(address, N(i))
    IN  IF i < size /\ index[1] = 0 /\ index[2] \in DOMAIN data THEN data[index[2]] ELSE 0

\* Memory.localRead(address, size), for size <= 4: result |= data[address + i] << (8 * i)
\* for each i < size.  The bytes occupy disjoint bits, so the | of the shifted bytes
\* is the pair of limbs below; | yields a signed int32.  Device.localRead returns 0.
localRead(dev, address, size) ==
    IF dev.kind = "memory"
    THEN signed(<<ByteAt(dev.data, address, 3, size) * 256 + ByteAt(dev.data, address, 2, size),
                  ByteAt(dev.data, address, 1, size) * 256 + ByteAt(dev.data, address, 0, size)>>)
    ELSE N(0)

\* Memory.localWrite(address, size, value): the new byte array.  Byte address + i
\* gets bits [8i + 7, 8i] of value; a store outside a Uint8Array is ignored.
\* Device.localWrite does nothing.
localWrite(dev, address, size, value) ==
    IF dev.kind = "memory"
    THEN [j \in DOMAIN dev.data |->
            LET i == j - address[2]
            IN  IF address[1] = 0 /\ i >= 0 /\ i < size
                THEN unsignedSlice(value, 8 * i + 7, 8 * i)[2]
                ELSE dev.data[j]]
    ELSE dev.data

\* Device.read(address, size, signed)
DeviceRead(dev, address, size, sgn) ==
    LET raw == localRead(dev, unsigned(Minus(address, dev.firstAddress)), size)
    IN  IF sgn THEN signedSlice(raw, size * 8 - 1, 0)
               ELSE unsignedSlice(raw, size * 8 - 1, 0)

\* Device.write(address, size, value): the device after the write.
DeviceWrite(dev, address, size, value) ==
    [dev EXCEPT !.data = localWrite(dev, unsigned(Minus(address, dev.firstAddress)), size, value)]

\* Device.irq() of a peripheral: the level of its interrupt line.
DeviceIrq(dev) == dev.pending

(***************************************************************************)
(* Bus.  devs is bus.devices, in registration order.                       *)
(***************************************************************************)

\* Bus.getDevices(address, size): the indices of the accepting devices, in order.
getDevices(devs, address, size) ==
    LET a == unsigned(address)
    IN  SelectSeq([i \in 1 .. Len(devs) |-> i], LAMBDA i : accepts(devs[i], a, size))

\* A mutant of BusRead: the error flag, once set, stays set.
BusReadStickyError(devs, err, address, size, sgn) ==
    LET a  == unsigned(address)
        ds == getDevices(devs, a, size)
        e  == err \/ Len(ds) = 0
    IN  [error |-> e,
         value |-> IF Len(ds) = 0 THEN N(0) ELSE DeviceRead(devs[ds[1]], a, size, sgn)]

\* Bus.read(address, size, signed): the new error flag and the value returned.
\* err is the flag before the call.
BusRead(devs, err, address, size, sgn) ==
    LET a  == unsigned(address)
        ds == getDevices(devs, a, size)
        e  == Len(ds) = 0
    IN  [error |-> e,
         value |-> IF e THEN N(0) ELSE DeviceRead(devs[ds[1]], a, size, sgn)]

\* A mutant of BusWrite: only the first accepting device is written.
BusWriteFirstOnly(devs, err, address, size, value) ==
    LET ds == getDevices(devs, address, size)
    IN  [error   |-> Len(ds) = 0,
         written |-> IF Len(ds) = 0 THEN ds ELSE <<ds[1]>>,
         devices |-> [i \in 1 .. Len(devs) |->
                        IF Len(ds) > 0 /\ ds[1] = i
                        THEN DeviceWrite(devs[i], address, size, value)
                        ELSE devs[i]]]

\* Bus.write(address, size, value): the new error flag, the devices after the
\* write and the devices written, in order.
BusWrite(devs, err, address, size, value) ==
    LET ds == getDevices(devs, address, size)
    IN  [error   |-> Len(ds) = 0,
         written |-> ds,
         devices |-> [i \in 1 .. Len(devs) |->
                        IF \E k \in 1 .. Len(ds) : ds[k] = i
                        THEN DeviceWrite(devs[i], address, size, value)
                        ELSE devs[i]]]

\* Bus.irq()
BusIrq(devs) == \E i \in 1 .. Len(devs) : DeviceIrq(devs[i])

(***************************************************************************)
(* Virgule: the register file x (a function on 0 .. NX - 1), pc, mepc and  *)
(* irqState.  irqState is never assigned by the constructor or by reset:   *)
(* it starts undefined, which the only test of it (!this.irqState) takes   *)
(* as false, so it is modelled as FALSE.                                   *)
(***************************************************************************)

\* The register count given to the constructor (this.x.length).
NX == 4

\* A mutant of setX: register 0 is writable.
setXAllowsZero(xs, index, value) ==
    IF index >= 0 /\ index < NX THEN [xs EXCEPT ![index] = signed(value)] ELSE xs

\* Virgule.setX(index, value): the register file after the call.
setX(xs, index, value) ==
    IF index > 0 /\ index < NX THEN [xs EXCEPT ![index] = signed(value)] ELSE xs

\* Virgule.getX(index)
getX(xs, index) ==
    IF index > 0 /\ index < NX THEN xs[index] ELSE N(0)

\* A mutant of setPc: the low two bits are kept.
setPcUnaligned(value) == unsigned(value)

\* Virgule.setPc(value): the new pc.
setPc(value) == unsigned(AndNot3(value))

\* ALU operand A
OperandA(src1, pcv, x1) ==
    CASE src1 = "pc" -> pcv
      [] src1 = "x1" -> x1
      [] OTHER -> N(0)

\* ALU operand B
OperandB(src2, imm, x2) ==
    CASE src2 = "imm" -> imm
      [] src2 = "x2" -> x2
      [] OTHER -> N(0)

Bool01(c) == IF c THEN N(1) ELSE N(0)

\* A mutant of Alu: add and sub are not reduced to 32 bits.
AluNoWrap(aluOp, a, b) ==
    CASE aluOp = "b"    -> b
      [] aluOp = "add"  -> Plus(a, b)
      [] aluOp = "sll"  -> ShiftLeft(a, b)
      [] aluOp = "slt"  -> Bool01(Less(signed(a), signed(b)))
      [] aluOp = "sltu" -> Bool01(Less(unsigned(a), unsigned(b)))
      [] aluOp = "xor"  -> Bitwise("xor", a, b)
      [] aluOp = "srl"  -> ShiftRightLogical(a, b)
      [] aluOp = "sra"  -> ShiftRightArith(a, b)
      [] aluOp = "or"   -> Bitwise("or", a, b)
      [] aluOp = "and"  -> Bitwise("and", a, b)
      [] aluOp = "sub"  -> Minus(a, b)
      [] OTHER -> N(0)

\* ALU operation
Alu(aluOp, a, b) ==
    CASE aluOp = "b"    -> b
      [] aluOp = "add"  -> signed(Plus(a, b))
      [] aluOp = "sll"  -> ShiftLeft(a, b)
      [] aluOp = "slt"  -> Bool01(Less(signed(a), signed(b)))
      [] aluOp = "sltu" -> Bool01(Less(unsigned(a), unsigned(b)))
      [] aluOp = "xor"  -> Bitwise("xor", a, b)
      [] aluOp = "srl"  -> ShiftRightLogical(a, b)
      [] aluOp = "sra"  -> ShiftRightArith(a, b)
      [] aluOp = "or"   -> Bitwise("or", a, b)
      [] aluOp = "and"  -> Bitwise("and", a, b)
      [] aluOp = "sub"  -> signed(Minus(a, b))
      [] OTHER -> N(0)

\* Branch condition
Taken(branch, x1, x2) ==
    CASE branch = "al"  -> TRUE
      [] branch = "eq"  -> x1 = x2
      [] branch = "ne"  -> x1 # x2
      [] branch = "lt"  -> Less(x1, x2)
      [] branch = "ge"  -> ~Less(x1, x2)
      [] branch = "ltu" -> Less(unsigned(x1), unsigned(x2))
      [] branch = "geu" -> ~Less(unsigned(x1), unsigned(x2))
      [] OTHER -> FALSE

LoadWidth(wbMem) == IF wbMem \in {"lb", "lbu"} THEN 1 ELSE IF wbMem \in {"lh", "lhu"} THEN 2 ELSE 4

StoreWidth(wbMem) == IF wbMem = "sb" THEN 1 ELSE IF wbMem = "sh" THEN 2 ELSE 4

\* A mutant of WriteBack: a load that fails keeps the destination register.
WriteBackKeepsRd(instr, r, incPc, x2, xs, devs, err) ==
    LET wb == instr.wbMem
    IN  CASE wb = "r"   -> [x |-> setX(xs, instr.rd, r), devices |-> devs, error |-> err, l |-> N(0)]
          [] wb = "pc+" -> [x |-> setX(xs, instr.rd, incPc), devices |-> devs, error |-> err, l |-> N(0)]
          [] wb \in {"lb", "lh", "lw", "lbu", "lhu"} ->
                LET rd == BusRead(devs, err, r, LoadWidth(wb), wb \in {"lb", "lh", "lw"})
                IN  [x |-> IF rd.error THEN xs ELSE setX(xs, instr.rd, rd.value),
                     devices |-> devs, error |-> rd.error, l |-> rd.value]
          [] wb \in {"sb", "sh", "sw"} ->
                LET wr == BusWrite(devs, err, r, StoreWidth(wb), x2)
                IN  [x |-> xs, devices |-> wr.devices, error |-> wr.error, l |-> N(0)]
          [] OTHER -> [x |-> xs, devices |-> devs, error |-> err, l |-> N(0)]

\* Register/memory update: the register file, the devices, the bus error flag
\* and the loaded value l after it.
WriteBack(instr, r, incPc, x2, xs, devs, err) ==
    LET wb == instr.wbMem
    IN  CASE wb = "r"   -> [x |-> setX(xs, instr.rd, r), devices |-> devs, error |-> err, l |-> N(0)]
          [] wb = "pc+" -> [x |-> setX(xs, instr.rd, incPc), devices |-> devs, error |-> err, l |-> N(0)]
          [] wb \in {"lb", "lh", "lw", "lbu", "lhu"} ->
                LET rd == BusRead(devs, err, r, LoadWidth(wb), wb \in {"lb", "lh", "lw"})
                IN  [x |-> setX(xs, instr.rd, rd.value), devices |-> devs,
                     error |-> rd.error, l |-> rd.value]
          [] wb \in {"sb", "sh", "sw"} ->
                LET wr == BusWrite(devs, err, r, StoreWidth(wb), x2)
                IN  [x |-> xs, devices |-> wr.devices, error |-> wr.error, l |-> N(0)]
          [] OTHER -> [x |-> xs, devices |-> devs, error |-> err, l |-> N(0)]

\* A mutant of LoadStoreError: the bus error flag alone.
LoadStoreErrorAnyInstr(wbMem, err) == err

\* loadStoreError: wbMem && (wbMem[0] === 'l' || wbMem[0] === 's') && bus.error,
\* as a truth value.
LoadStoreError(wbMem, err) ==
    wbMem # "none" /\ SubSeq(wbMem, 1, 1) \in {"l", "s"} /\ err

\* A mutant of PcUpdate: an interrupt is entered whenever irq is asserted.
PcUpdateNested(irq, inHandler, name, taken, r, incPc, mepcv) ==
    IF irq
    THEN [pc |-> setPc(N(4)), mepc |-> IF taken THEN r ELSE incPc, irqState |-> TRUE,
          enteringIrq |-> TRUE]
    ELSE IF name = "mret"
    THEN [pc |-> setPc(mepcv), mepc |-> mepcv, irqState |-> FALSE, enteringIrq |-> FALSE]
    ELSE [pc |-> setPc(IF taken THEN r ELSE incPc), mepc |-> mepcv, irqState |-> inHandler,
          enteringIrq |-> FALSE]

\* A mutant of PcUpdate: mret does not leave the handler state.
PcUpdateMretStays(irq, inHandler, name, taken, r, incPc, mepcv) ==
    LET enteringIrq == irq /\ ~inHandler
    IN  IF enteringIrq
        THEN [pc |-> setPc(N(4)), mepc |-> IF taken THEN r ELSE incPc, irqState |-> TRUE,
              enteringIrq |-> TRUE]
        ELSE IF name = "mret"
        THEN [pc |-> setPc(mepcv), mepc |-> mepcv, irqState |-> inHandler, enteringIrq |-> FALSE]
        ELSE [pc |-> setPc(IF taken THEN r ELSE incPc), mepc |-> mepcv, irqState |-> inHandler,
              enteringIrq |-> FALSE]

\* A mutant of PcUpdate: the interrupt saves incPc even after a taken branch.
PcUpdateSavesIncPc(irq, inHandler, name, taken, r, incPc, mepcv) ==
    LET enteringIrq == irq /\ ~inHandler
    IN  IF enteringIrq
        THEN [pc |-> setPc(N(4)), mepc |-> incPc, irqState |-> TRUE, enteringIrq |-> TRUE]
        ELSE IF name = "mret"
        THEN [pc |-> setPc(mepcv), mepc |-> mepcv, irqState |-> FALSE, enteringIrq |-> FALSE]
        ELSE [pc |-> setPc(IF taken THEN r ELSE incPc), mepc |-> mepcv, irqState |-> inHandler,
              enteringIrq |-> FALSE]

\* A mutant of PcUpdate: a taken branch falls through.
PcUpdateIgnoresTaken(irq, inHandler, name, taken, r, incPc, mepcv) ==
    LET enteringIrq == irq /\ ~inHandler
    IN  IF enteringIrq
        THEN [pc |-> setPc(N(4)), mepc |-> IF taken THEN r ELSE incPc, irqState |-> TRUE,
              enteringIrq |-> TRUE]
        ELSE IF name = "mret"
        THEN [pc |-> setPc(mepcv), mepc |-> mepcv, irqState |-> FALSE, enteringIrq |-> FALSE]
        ELSE [pc |-> setPc(incPc), mepc |-> mepcv, irqState |-> inHandler,
              enteringIrq |-> FALSE]

\* A mutant of PcUpdate: mret clears mepc.
PcUpdateMretClearsMepc(irq, inHandler, name, taken, r, incPc, mepcv) ==
    LET enteringIrq == irq /\ ~inHandler
    IN  IF enteringIrq
        THEN [pc |-> setPc(N(4)), mepc |-> IF taken THEN r ELSE incPc, irqState |-> TRUE,
              enteringIrq |-> TRUE]
        ELSE IF name = "mret"
        THEN [pc |-> setPc(mepcv), mepc |-> N(0), irqState |-> FALSE, enteringIrq |-> FALSE]
        ELSE [pc |-> setPc(IF taken THEN r ELSE incPc), mepc |-> mepcv, irqState |-> inHandler,
              enteringIrq |-> FALSE]

\* A mutant of PcUpdate: the interrupt saves the address of the interrupted
\* instruction itself.
PcUpdateSavesInterruptedPc(irq, inHandler, name, taken, r, incPc, mepcv) ==
    LET enteringIrq == irq /\ ~inHandler
    IN  IF enteringIrq
        THEN [pc |-> setPc(N(4)), mepc |-> Minus(incPc, N(4)), irqState |-> TRUE,
              enteringIrq |-> TRUE]
        ELSE IF name = "mret"
        THEN [pc |-> setPc(mepcv), mepc |-> mepcv, irqState |-> FALSE, enteringIrq |-> FALSE]
        ELSE [pc |-> setPc(IF taken THEN r ELSE incPc), mepc |-> mepcv, irqState |-> inHandler,
              enteringIrq |-> FALSE]

\* A mutant of PcUpdate: mret returns one instruction after mepc.
PcUpdateMretSkips(irq, inHandler, name, taken, r, incPc, mepcv) ==
    LET enteringIrq == irq /\ ~inHandler
    IN  IF enteringIrq
        THEN [pc |-> setPc(N(4)), mepc |-> IF taken THEN r ELSE incPc, irqState |-> TRUE,
              enteringIrq |-> TRUE]
        ELSE IF name = "mret"
        THEN [pc |-> setPc(Plus(mepcv, N(4))), mepc |-> mepcv, irqState |-> FALSE,
              enteringIrq |-> FALSE]
        ELSE [pc |-> setPc(IF taken THEN r ELSE incPc), mepc |-> mepcv, irqState |-> inHandler,
              enteringIrq |-> FALSE]

\* Program counter update: pc, mepc and irqState after it, and enteringIrq.
PcUpdate(irq, inHandler, name, taken, r, incPc, mepcv) ==
    LET enteringIrq == irq /\ ~inHandler
    IN  IF enteringIrq
        THEN [pc |-> setPc(N(4)), mepc |-> IF taken THEN r ELSE incPc, irqState |-> TRUE,
              enteringIrq |-> TRUE]
        ELSE IF name = "mret"
        THEN [pc |-> setPc(mepcv), mepc |-> mepcv, irqState |-> FALSE, enteringIrq |-> FALSE]
        ELSE [pc |-> setPc(IF taken THEN r ELSE incPc), mepc |-> mepcv, irqState |-> inHandler,
              enteringIrq |-> FALSE]

\* A mutant of Fetch: a fetch that fails leaves the error unreported.
FetchIgnoresError(devs, err, pcv) == [BusRead(devs, err, pcv, 4, FALSE) EXCEPT !.error = FALSE]

\* Fetch: bus.read(this.pc, 4, false) and the error flag sampled after it.
Fetch(devs, err, pcv) == BusRead(devs, err, pcv, 4, FALSE)

\* Execute: the register operands, the ALU operands, the ALU result and the
\* branch decision of an instruction.
Execute(instr, xs, pcv) ==
    LET x1 == getX(xs, instr.rs1)
        x2 == getX(xs, instr.rs2)
        a  == OperandA(instr.src1, pcv, x1)
        b  == OperandB(instr.src2, instr.imm, x2)
    IN  [x1 |-> x1, x2 |-> x2, a |-> a, b |-> b, r |-> Alu(instr.aluOp, a, b),
         taken |-> Taken(instr.branch, x1, x2)]

\* A mutant of reset: the core also leaves the handler state.
resetClearsIrqState(xs, inHandler) ==
    [x |-> [i \in DOMAIN xs |-> N(0)], pc |-> N(0), mepc |-> N(0), irqState |-> FALSE]

\* Virgule.reset(): every register, pc and mepc to zero; irqState is not assigned.
reset(xs, inHandler) ==
    [x |-> [i \in DOMAIN xs |-> N(0)], pc |-> N(0), mepc |-> N(0), irqState |-> inHandler]

(***************************************************************************)
(* The host: the words it loads, the devices it registers, the values it   *)
(* passes.  The encoders build RV32I words from their fields.              *)
(***************************************************************************)

EncR(f7, rs2, rs1, f3, rd, op) ==
    <<f7 * 512 + rs2 * 16 + (rs1 \div 2), (rs1 % 2) * 32768 + f3 * 4096 + rd * 128 + op>>

EncI(imm, rs1, f3, rd, op) ==
    <<(imm % 4096) * 16 + (rs1 \div 2), (rs1 % 2) * 32768 + f3 * 4096 + rd * 128 + op>>

EncS(imm, rs2, rs1, f3, op) == EncR((imm % 4096) \div 32, rs2, rs1, f3, (imm % 4096) % 32, op)

EncB(imm, rs2, rs1, f3) ==
    LET i == imm % 8192
    IN  <<(i \div 4096) * 32768 + ((i \div 32) % 64) * 512 + rs2 * 16 + (rs1 \div 2),
          (rs1 % 2) * 32768 + f3 * 4096 + ((i \div 2) % 16) * 256 + ((i \div 2048) % 2) * 128 + 99>>

EncU(imm20, rd, op) == <<imm20 \div 16, (imm20 % 16) * 4096 + rd * 128 + op>>

EncJ(imm, rd) ==
    LET i == imm % (2^21)
    IN  <<(i \div (2^20)) * 32768 + ((i \div 2) % 1024) * 32 + ((i \div 2048) % 2) * 16
             + (((i \div 4096) % 256) \div 16),
          (((i \div 4096) % 256) % 16) * 4096 + rd * 128 + 111>>

ADDI(rd, rs1, imm) == EncI(imm, rs1, 0, rd, 19)
SLTIU(rd, rs1, imm) == EncI(imm, rs1, 3, rd, 19)
XORI(rd, rs1, imm) == EncI(imm, rs1, 4, rd, 19)
SLLI(rd, rs1, sh) == EncI(sh, rs1, 1, rd, 19)
SRLI(rd, rs1, sh) == EncI(sh, rs1, 5, rd, 19)
SRAI(rd, rs1, sh) == EncI(1024 + sh, rs1, 5, rd, 19)
ADD(rd, rs1, rs2) == EncR(0, rs2, rs1, 0, rd, 51)
SUB(rd, rs1, rs2) == EncR(32, rs2, rs1, 0, rd, 51)
SLT(rd, rs1, rs2) == EncR(0, rs2, rs1, 2, rd, 51)
OR(rd, rs1, rs2) == EncR(0, rs2, rs1, 6, rd, 51)
AND(rd, rs1, rs2) == EncR(0, rs2, rs1, 7, rd, 51)
LUI(rd, imm20) == EncU(imm20, rd, 55)
AUIPC(rd, imm20) == EncU(imm20, rd, 23)
JAL(rd, imm) == EncJ(imm, rd)
JALR(rd, rs1, imm) == EncI(imm, rs1, 0, rd, 103)
BEQ(rs1, rs2, imm) == EncB(imm, rs2, rs1, 0)
BNE(rs1, rs2, imm) == EncB(imm, rs2, rs1, 1)
BLT(rs1, rs2, imm) == EncB(imm, rs2, rs1, 4)
BGE(rs1, rs2, imm) == EncB(imm, rs2, rs1, 5)
BLTU(rs1, rs2, imm) == EncB(imm, rs2, rs1, 6)
BGEU(rs1, rs2, imm) == EncB(imm, rs2, rs1, 7)
LB(rd, rs1, imm) == EncI(imm, rs1, 0, rd, 3)
LH(rd, rs1, imm) == EncI(imm, rs1, 1, rd, 3)
LW(rd, rs1, imm) == EncI(imm, rs1, 2, rd, 3)
LBU(rd, rs1, imm) == EncI(imm, rs1, 4, rd, 3)
LHU(rd, rs1, imm) == EncI(imm, rs1, 5, rd, 3)
SB(rs2, rs1, imm) == EncS(imm, rs2, rs1, 0, 35)
SH(rs2, rs1, imm) == EncS(imm, rs2, rs1, 1, 35)
SW(rs2, rs1, imm) == EncS(imm, rs2, rs1, 2, 35)
MRET == <<12320, 115>>

\* The size in bytes of each of the two Memory devices.
MemSize == 16

\* The number of step() calls of a run.
MaxSteps == 5

\* The number of setX and bus write calls the host makes itself in a run.
MaxPokes == 1

\* The programs the host loads at address 0 (address 4 is the interrupt vector).
Programs ==
    { <<ADDI(1, 0, 5), ADDI(2, 1, 3), ADD(3, 1, 2), SUB(3, 0, 3)>>,
      <<JALR(1, 0, 6), MRET, ADDI(2, 0, -1), JAL(0, -12)>>,
      <<JALR(0, 0, -4), MRET, BEQ(0, 0, -8), BNE(0, 0, 8)>>,
      <<LUI(1, 524288), SW(1, 0, 16), LB(2, 0, 19), LBU(3, 0, 19)>>,
      <<ADDI(2, 0, 5), LW(2, 0, 100), SW(2, 0, 100), LHU(3, 0, 14)>>,
      <<LUI(1, 524288), ADDI(1, 1, -1), ADDI(1, 1, 1), JAL(0, 20)>>,
      <<ADDI(1, 0, -1), BLT(1, 0, 8), BLTU(1, 0, 8), BGEU(1, 0, -4)>>,
      <<ADDI(2, 0, 1), BGE(2, 0, 6), BNE(2, 0, 8), BEQ(2, 2, -8)>>,
      <<ADDI(1, 0, -1), SLLI(1, 1, 31), SRAI(1, 1, 4), SRLI(1, 1, 4)>>,
      <<ADDI(1, 0, 5), XORI(2, 1, -1), SLT(3, 2, 1), SUB(3, 2, 1)>>,
      <<ADDI(0, 0, 5), ADDI(31, 0, 5), LW(0, 0, 0), JAL(31, 8)>>,
      <<AUIPC(1, 1048575), SLTIU(2, 1, 1), OR(3, 1, 2), AND(3, 3, 1)>>,
      <<LW(2, 0, -2), SH(1, 0, -1), LH(2, 0, 22), SB(1, 0, 23)>>,
      <<ADDI(1, 1, 1), MRET, ADDI(2, 2, 1), SLT(3, 1, 2)>>,
      <<BNE(1, 0, 8), MRET, SW(1, 1, 0), LW(3, 1, 0)>>,
      <<JAL(0, 100), MRET, N(0), N(0)>>,
      <<LUI(1, 524288), ADDI(2, 0, 1), SUB(3, 1, 2), SUB(3, 0, 1)>>,
      <<N(0), N(0), N(0), N(0)>> }

\* The devices the host registers: two Memory devices that overlap on
\* [8, MemSize - 1] and a peripheral with an interrupt line.
NewDevices == <<Memory(N(0), MemSize), Memory(N(8), MemSize), Device(N(32), 4)>>

\* The host's loader: word k of a program goes to address 4 (k - 1) by a 4-byte
\* bus write.
LoadWord(devs, k, word) == BusWrite(devs, FALSE, N(4 * (k - 1)), 4, word).devices

\* The register indices and values the host passes to setX and getX.
HostIndices == {-1, 0, 1, NX - 1, NX}

HostValues == {N(-1), <<32767, 65535>>}

\* The addresses, widths and values the host passes to the bus itself: inside one
\* memory, across the end of one, in the overlap, at the peripheral, and just
\* below 2^32.
BusAddresses == {N(0), N(7), N(14), N(MemSize + 6), N(32), N(-2), N(-1)}

WriteAddresses == {N(7), N(14), N(MemSize + 6), N(-2)}

BusSizes == {1, 2, 4}

BusValues == {<<65535, 33023>>, <<4660, 22136>>}

(***************************************************************************)
(* The state.  trace is the record the last step() returned; last is what  *)
(* the last operation was and the state it started from.                   *)
(***************************************************************************)
VARIABLES x, pc, mepc, irqState, devices, error, trace, last, steps, pokes

vars == <<x, pc, mepc, irqState, devices, error, trace, last, steps, pokes>>

NoTrace ==
    [instr |-> fromWord(N(0)), pc |-> N(0), incPc |-> N(0), irq |-> FALSE, x1 |-> N(0),
     x2 |-> N(0), a |-> N(0), b |-> N(0), r |-> N(0), l |-> N(0), taken |-> FALSE,
     fetchError |-> FALSE, loadStoreError |-> FALSE]

\* No operation has run yet.
NoPrev == [op |-> "none", name |-> "none", irqState |-> FALSE]

\* What an operation records of the state it starts from; prev is the operation
\* before it.
Started(op, args, prev) ==
    [op |-> op, args |-> args, ret |-> N(0), x |-> x, pc |-> pc, mepc |-> mepc,
     irqState |-> irqState, irq |-> BusIrq(devices), error |-> error, devices |-> devices,
     prev |-> prev]

\* The record of an operation that follows another: of the operation before it,
\* what it was, the state of irqState it started from and, for a step, the
\* mnemonic it executed.
Before(op, args) ==
    Started(op, args, [op       |-> last.op,
                       name     |-> IF last.op = "step" THEN trace.instr.name ELSE "none",
                       irqState |-> last.irqState])

\* new Bus(), addDevice for each device, new Virgule(NX, bus).
Constructed ==
    /\ x = [i \in 0 .. NX - 1 |-> N(0)]
    /\ pc = N(0)
    /\ mepc = N(0)
    /\ irqState = FALSE
    /\ error = FALSE
    /\ trace = NoTrace
    /\ steps = 0
    /\ pokes = 0

\* The core and the bus as constructed, a four-word program loaded.
Init ==
    /\ Constructed
    /\ \E prog \in Programs :
       \E d1 \in {LoadWord(NewDevices, 1, prog[1])} :
       \E d2 \in {LoadWord(d1, 2, prog[2])} :
       \E d3 \in {LoadWord(d2, 3, prog[3])} :
          devices = LoadWord(d3, 4, prog[4])
    /\ last = Started("init", <<>>, NoPrev)

\* The bus as constructed, the memories still zero.
InitBus ==
    /\ Constructed
    /\ devices = NewDevices
    /\ last = Started("init", <<>>, NoPrev)

\* core.step(): irq sampled, fetch, decode, execute, register/memory update,
\* program counter update, and the trace returned.
Step ==
    /\ steps < MaxSteps
    /\ \E irq \in {BusIrq(devices)} :
       \E fetch \in {Fetch(devices, error, pc)} :
       \E instr \in {fromWord(fetch.value)} :
       \E ex \in {Execute(instr, x, pc)} :
       \E wb \in {WriteBack(instr, ex.r, Plus(pc, N(4)), ex.x2, x, devices, fetch.error)} :
       \E next \in {PcUpdate(irq, irqState, instr.name, ex.taken, ex.r, Plus(pc, N(4)), mepc)} :
          /\ x' = wb.x
          /\ pc' = next.pc
          /\ mepc' = next.mepc
          /\ irqState' = next.irqState
          /\ devices' = wb.devices
          /\ error' = wb.error
          /\ trace' = [instr |-> instr, pc |-> pc, incPc |-> Plus(pc, N(4)),
                       irq |-> next.enteringIrq, x1 |-> ex.x1, x2 |-> ex.x2, a |-> ex.a,
                       b |-> ex.b, r |-> ex.r, l |-> wb.l, taken |-> ex.taken,
                       fetchError |-> fetch.error,
                       loadStoreError |-> LoadStoreError(instr.wbMem, wb.error)]
    /\ last' = Before("step", <<>>)
    /\ steps' = steps + 1
    /\ UNCHANGED pokes

\* core.reset()
Reset ==
    /\ last.op # "reset"
    /\ \E s \in {reset(x, irqState)} :
          /\ x' = s.x
          /\ pc' = s.pc
          /\ mepc' = s.mepc
          /\ irqState' = s.irqState
    /\ last' = Before("reset", <<>>)
    /\ UNCHANGED <<devices, error, trace, steps, pokes>>

\* core.setX(index, value), called by the host.
SetXCall ==
    /\ pokes < MaxPokes
    /\ \E index \in HostIndices, value \in HostValues :
          /\ x' = setX(x, index, value)
          /\ last' = Before("setX", <<index, value>>)
    /\ pokes' = pokes + 1
    /\ UNCHANGED <<pc, mepc, irqState, devices, error, trace, steps>>

\* core.getX(index), called by the host.
GetXCall ==
    /\ \E index \in HostIndices :
          last' = [Before("getX", <<index>>) EXCEPT !.ret = getX(x, index)]
    /\ UNCHANGED <<x, pc, mepc, irqState, devices, error, trace, steps, pokes>>

\* The peripheral raises or lowers its interrupt line.
SetIrq ==
    /\ \E i \in 1 .. Len(devices) :
          /\ devices[i].kind = "device"
          /\ devices' = [devices EXCEPT ![i].pending = ~devices[i].pending]
    /\ last' = Before("irq", <<>>)
    /\ UNCHANGED <<x, pc, mepc, irqState, error, trace, steps, pokes>>

\* bus.read(address, size, signed), called by the host.
BusReadCall ==
    /\ \E address \in BusAddresses, size \in BusSizes, sgn \in BOOLEAN :
          \E rd \in {BusRead(devices, error, address, size, sgn)} :
              /\ error' = rd.error
              /\ last' = [Before("read", <<address, size, sgn>>) EXCEPT !.ret = rd.value]
    /\ UNCHANGED <<x, pc, mepc, irqState, devices, trace, steps, pokes>>

\* bus.write(address, size, value), called by the host.
BusWriteCall ==
    /\ pokes < MaxPokes
    /\ \E address \in WriteAddresses, size \in BusSizes, value \in BusValues :
          \E wr \in {BusWrite(devices, error, address, size, value)} :
              /\ error' = wr.error
              /\ devices' = wr.devices
              /\ last' = Before("write", <<address, size, value>>)
    /\ pokes' = pokes + 1
    /\ UNCHANGED <<x, pc, mepc, irqState, trace, steps>>

\* The core run by the host: steps, resets, and the interrupt line.
Next == Step \/ Reset \/ SetIrq

Spec == Init /\ [][Next]_vars

\* The register file used by the host and by the core.
NextRegs == SetXCall \/ GetXCall \/ Step \/ Reset

SpecRegs == Init /\ [][NextRegs]_vars

\* The bus used by the host.
NextBus == BusReadCall \/ BusWriteCall

SpecBus == InitBus /\ [][NextBus]_vars

(***************************************************************************)
(* Properties.                                                             *)
(***************************************************************************)

\* The last operation was a step().
IsStep == last.op = "step"

\* The last operation was a step() that entered an interrupt: irq() was true and
\* irqState false when it started.
EnteredIrq == IsStep /\ last.irq /\ ~last.irqState

\* n reduced to an unsigned 32-bit value with its low two bits cleared.
WordAligned32(n) == <<n[1] % Base, n[2] - (n[2] % 4)>>

\* No registered device accepts the access (address, size).
NoDevice(address, size) ==
    \A i \in 1 .. Len(devices) : ~accepts(devices[i], unsigned(address), size)

\* The whole byte range of the access lies inside the device, with no wrap at 2^32.
Inside(dev, address, size) ==
    /\ LessEq(dev.firstAddress, address)
    /\ LessEq(Plus(address, N(size - 1)), dev.lastAddress)

\* C1: a step that starts with irq() true and irqState false ends with pc = 4,
\* irqState true and mepc the would-be return address: r if the executed
\* instruction's branch was taken, the pre-step pc + 4 otherwise.
C1_InterruptEntry ==
    EnteredIrq =>
        /\ pc = N(4)
        /\ irqState
        /\ mepc = IF trace.taken THEN trace.r ELSE Plus(last.pc, N(4))

\* An interrupt was entered on a taken branch whose target is not pc + 4.
C1_Witness == EnteredIrq /\ trace.taken /\ trace.r # Plus(last.pc, N(4))

\* C2 as stated: a step that executes mret while irqState is true ends with pc
\* equal to the saved mepc and irqState false.
C2_Original ==
    (IsStep /\ trace.instr.name = "mret" /\ last.irqState) =>
        /\ pc = last.mepc
        /\ ~irqState

\* C2 amended: a step that executes mret while irqState is true ends with pc
\* equal to mepc reduced to an unsigned 32-bit value with its low two bits
\* cleared, mepc unchanged and irqState false.
C2_InterruptReturn ==
    (IsStep /\ trace.instr.name = "mret" /\ last.irqState) =>
        /\ pc = WordAligned32(last.mepc)
        /\ mepc = last.mepc
        /\ ~irqState

\* mret returned from a handler to a saved mepc that is not word-aligned.
C2_Witness ==
    /\ IsStep
    /\ trace.instr.name = "mret"
    /\ last.irqState
    /\ pc # last.mepc

\* C3: a step that starts with irqState true and irq() asserted does not enter
\* an interrupt: mepc is unchanged, the trace's irq is false and pc follows the
\* mret, taken-branch and fall-through rules.
C3_NoNestedTrap ==
    (IsStep /\ last.irqState /\ last.irq) =>
        /\ mepc = last.mepc
        /\ ~trace.irq
        /\ pc = WordAligned32(IF trace.instr.name = "mret" THEN last.mepc
                              ELSE IF trace.taken THEN trace.r
                              ELSE Plus(last.pc, N(4)))
        /\ irqState = (trace.instr.name # "mret")

\* A handler instruction other than mret ran with irq() asserted.
C3_Witness ==
    /\ IsStep
    /\ last.irqState
    /\ last.irq
    /\ trace.instr.name # "mret"
    /\ pc # N(4)

\* C4: after reset and after every step, pc is a multiple of 4 in 0 .. 2^32 - 1.
C4_PcAligned ==
    /\ pc[1] >= 0
    /\ pc[1] < Base
    /\ pc[2] >= 0
    /\ pc[2] < Base
    /\ pc[2] % 4 = 0

\* A step jumped to a negative ALU result, or fell through from 2^32 - 4.
C4_Witness ==
    /\ IsStep
    /\ ~trace.irq
    /\ trace.instr.name # "mret"
    /\ \/ trace.taken /\ trace.r[1] < 0
       \/ ~trace.taken /\ trace.incPc[1] >= Base

\* A register index that is 0 or outside 1 .. NX - 1.
NoRegister(index) == index <= 0 \/ index >= NX

\* C5: for an index that is 0 or outside 1 .. NX - 1, getX returns 0 and setX
\* changes no register, whether the host calls them or a step does (rd); the
\* cell of register 0 stays 0.
C5_RegisterZero ==
    /\ \A index \in HostIndices : NoRegister(index) => getX(x, index) = N(0)
    /\ (last.op = "getX" /\ NoRegister(last.args[1])) => last.ret = N(0)
    /\ (last.op = "setX" /\ NoRegister(last.args[1])) => x = last.x
    /\ (IsStep /\ NoRegister(trace.instr.rd)) => x = last.x
    /\ x[0] = N(0)

\* The host wrote a non-zero value to register 0.
C5_Witness == last.op = "setX" /\ last.args[1] = 0 /\ last.args[2] # N(0)

\* C6 as stated: a step that neither enters an interrupt nor executes mret ends
\* with pc = r when taken, pc = pre-step pc + 4 otherwise.
C6_Original ==
    (IsStep /\ ~trace.irq /\ trace.instr.name # "mret") =>
        pc = IF trace.taken THEN trace.r ELSE Plus(last.pc, N(4))

\* C6 amended: such a step ends with pc equal to r (taken) or the pre-step
\* pc + 4 (not taken), reduced to an unsigned 32-bit value with its low two
\* bits cleared.
C6_BranchTarget ==
    (IsStep /\ ~trace.irq /\ trace.instr.name # "mret") =>
        pc = WordAligned32(IF trace.taken THEN trace.r ELSE Plus(last.pc, N(4)))

\* A taken branch whose ALU result is not the pc it led to.
C6_Witness ==
    /\ IsStep
    /\ ~trace.irq
    /\ trace.instr.name # "mret"
    /\ trace.taken
    /\ pc # trace.r

\* The last operation was a bus call of the host.
IsBusCall == last.op \in {"read", "write"}

\* C7 as stated: accepts(address, size) is true exactly when the whole range
\* [address, address + size - 1] lies inside [firstAddress, lastAddress].
C7_AcceptsIffInside ==
    IsBusCall =>
        \A i \in 1 .. Len(devices) :
            accepts(devices[i], unsigned(last.args[1]), last.args[2])
                <=> Inside(devices[i], unsigned(last.args[1]), last.args[2])

\* C8: after a bus read or write, error is true exactly when no device accepted
\* the access of that call, whatever error was before; a failed read returns 0.
C8_ErrorIsLastCall ==
    IsBusCall =>
        /\ error <=> NoDevice(last.args[1], last.args[2])
        /\ (last.op = "read" /\ error) => last.ret = N(0)

\* A bus call succeeded right after one that had failed.
C8_Witness == IsBusCall /\ last.error /\ ~error

\* The access width of a load or store tag.
Width(wbMem) == IF wbMem \in {"lb", "lbu", "sb"} THEN 1 ELSE IF wbMem \in {"lh", "lhu", "sh"} THEN 2 ELSE 4

\* C9: loadStoreError is true exactly when the instruction is a load or store
\* and no device accepted its data access; fetchError is true exactly when no
\* device accepted the fetch.
C9_ErrorFlags ==
    IsStep =>
        /\ trace.loadStoreError <=>
              /\ trace.instr.wbMem \in {"lb", "lh", "lw", "lbu", "lhu", "sb", "sh", "sw"}
              /\ NoDevice(trace.r, Width(trace.instr.wbMem))
        /\ trace.fetchError <=> NoDevice(last.pc, 4)

\* A fetch failed, the bus error flag is still set, and no load/store error is reported.
C9_Witness == IsStep /\ trace.fetchError /\ error /\ ~trace.loadStoreError

\* C10: a step whose fetch no device accepts completes: it decodes the word 0,
\* reports fetchError, changes no register and no device, moves pc by the usual
\* rules (interrupt entry, else fall-through: the word 0 is no mret and no
\* branch) and leaves the core ready for the next step.
C10_FetchErrorNonFatal ==
    (IsStep /\ NoDevice(last.pc, 4)) =>
        /\ trace.fetchError
        /\ trace.instr = fromWord(N(0))
        /\ x = last.x
        /\ devices = last.devices
        /\ pc = IF last.irq /\ ~last.irqState THEN N(4)
                ELSE WordAligned32(Plus(last.pc, N(4)))
        /\ mepc = IF last.irq /\ ~last.irqState THEN Plus(last.pc, N(4)) ELSE last.mepc
        /\ irqState = (last.irq \/ last.irqState)

\* A fetch failed in a step that followed a step whose fetch had failed.
C10_Witness == IsStep /\ trace.fetchError /\ last.error /\ steps >= 2

\* The low 8 * size bits of v, zero-extended.
ZeroExtended(v, size) == LowBits(unsigned(v), 8 * size)

\* The low 8 * size bits of v, sign-extended.
SignExtended(v, size) ==
    LET z == ZeroExtended(v, size)
    IN  IF Less(z, Pow2(8 * size - 1)) THEN z ELSE Minus(z, Pow2(8 * size))

\* Some Memory device accepts the access (address, size).
AcceptedByMemory(address, size) ==
    \E i \in 1 .. Len(devices) :
        devices[i].kind = "memory" /\ accepts(devices[i], unsigned(address), size)

\* Byte j of the device is one of the bytes address .. address + size - 1.
InAccess(dev, j, address, size) ==
    LET byte == Plus(dev.firstAddress, N(j))
    IN  LessEq(unsigned(address), byte) /\ LessEq(byte, Plus(unsigned(address), N(size - 1)))

\* C11 as stated: after a bus write of v with width size to an address a Memory
\* accepts, a bus read there with the same width returns the low 8 * size bits
\* of v, sign-extended when signed and zero-extended when not, and no memory
\* byte outside the access has changed.
C11_RoundTrip ==
    (last.op = "write" /\ AcceptedByMemory(last.args[1], last.args[2])) =>
        /\ BusRead(devices, error, last.args[1], last.args[2], TRUE).value
              = SignExtended(last.args[3], last.args[2])
        /\ BusRead(devices, error, last.args[1], last.args[2], FALSE).value
              = ZeroExtended(last.args[3], last.args[2])
        /\ \A i \in 1 .. Len(devices) : \A j \in DOMAIN devices[i].data :
              ~InAccess(devices[i], j, last.args[1], last.args[2])
                  => devices[i].data[j] = last.devices[i].data[j]

\* Byte k of a value: bits [8k + 7, 8k].
ValueByte(v, k) ==
    LET u == unsigned(v)
    IN  <<u[2] % 256, u[2] \div 256, u[1] % 256, u[1] \div 256>>[k + 1]

\* C12: after a bus write, every device that accepts the access has been
\* written (a Memory holding the whole range has the bytes of the value at it),
\* the accepting devices are taken in registration order, and every device that
\* does not accept it is unchanged.
C12_WriteBroadcast ==
    last.op = "write" =>
        /\ \A i \in 1 .. Len(devices) :
              IF accepts(last.devices[i], unsigned(last.args[1]), last.args[2])
              THEN /\ devices[i] = DeviceWrite(last.devices[i], last.args[1], last.args[2],
                                               last.args[3])
                   /\ (devices[i].kind = "memory"
                       /\ Inside(devices[i], unsigned(last.args[1]), last.args[2]))
                        => \A k \in 0 .. last.args[2] - 1 :
                              devices[i].data[Minus(unsigned(last.args[1]),
                                                    devices[i].firstAddress)[2] + k]
                                 = ValueByte(last.args[3], k)
              ELSE devices[i] = last.devices[i]
        /\ LET w == getDevices(last.devices, last.args[1], last.args[2])
           IN  \A k \in 1 .. Len(w) - 1 : w[k] < w[k + 1]

\* A write accepted by two devices changed both and left a third alone.
C12_Witness ==
    /\ last.op = "write"
    /\ Len(getDevices(last.devices, last.args[1], last.args[2])) >= 2
    /\ \A i \in 1 .. Len(devices) :
          accepts(last.devices[i], unsigned(last.args[1]), last.args[2])
              <=> devices[i] # last.devices[i]
    /\ \E i \in 1 .. Len(devices) :
          ~accepts(last.devices[i], unsigned(last.args[1]), last.args[2])

\* C13: the ALU result of an add or sub lies in -2^31 .. 2^31 - 1 and equals
\* a + b (a - b) modulo 2^32.
C13_AddSubWrap ==
    (IsStep /\ trace.instr.aluOp \in {"add", "sub"}) =>
        /\ trace.r[1] >= -HalfBase
        /\ trace.r[1] < HalfBase
        /\ unsigned(trace.r) = unsigned(IF trace.instr.aluOp = "add"
                                        THEN Plus(trace.a, trace.b)
                                        ELSE Minus(trace.a, trace.b))

\* 0x7FFFFFFF + 1 was computed and gave -2^31.
C13_Witness ==
    /\ IsStep
    /\ trace.instr.aluOp = "add"
    /\ trace.a = <<HalfBase - 1, Base - 1>>
    /\ trace.b = N(1)
    /\ trace.r = <<-HalfBase, 0>>

\* C14: a step that does not enter an interrupt leaves mepc unchanged, reset
\* sets it to 0, and no other operation writes it.
C14_MepcWriters ==
    /\ (IsStep /\ ~EnteredIrq) => mepc = last.mepc
    /\ last.op = "reset" => mepc = N(0)
    /\ last.op \notin {"step", "reset", "init"} => mepc = last.mepc

\* A step executed mret in a handler with irq() asserted and a saved mepc.
C14_Witness ==
    /\ IsStep
    /\ trace.instr.name = "mret"
    /\ last.irqState
    /\ last.irq
    /\ last.mepc # N(0)

\* C15 as stated: mepc is always an unsigned 32-bit value.
C15_MepcUnsigned == mepc[1] >= 0 /\ mepc[1] < Base

\* The unsigned little-endian composition of size bytes at an offset.
LittleEndianSum(data, offset, size) ==
    LET byte(k) == IF k < size THEN data[offset + k] ELSE 0
    IN  Norm(byte(3) * 256 + byte(2), byte(1) * 256 + byte(0))

\* C16 as stated: Memory.localRead(offset, size) is the unsigned little-endian
\* composition of the size bytes at offset, for every offset and size inside
\* the memory.
C16_LocalReadUnsigned ==
    \A i \in 1 .. Len(devices) :
        devices[i].kind = "memory" =>
            \A size \in BusSizes : \A offset \in 0 .. devices[i].size - size :
                localRead(devices[i], N(offset), size)
                    = LittleEndianSum(devices[i].data, offset, size)

\* The register file and the devices are those the executed instruction's
\* register/memory update leaves.
SideEffectsDone ==
    LET wb == WriteBack(trace.instr, trace.r, trace.incPc, trace.x2, last.x, last.devices,
                        last.error)
    IN  x = wb.x /\ devices = wb.devices

\* The pc the step would have ended with had irq() been false.
WouldBeNext ==
    PcUpdate(FALSE, last.irqState, trace.instr.name, trace.taken, trace.r, trace.incPc,
             last.mepc).pc

\* C17 as stated: a step that enters an interrupt still performs the register
\* or memory update of its instruction, and the saved mepc is the address of
\* the instruction that would have run next; an mret in a handler resumes there
\* with no other effect.
C17_Original ==
    /\ EnteredIrq => (SideEffectsDone /\ setPc(mepc) = WouldBeNext)
    /\ (IsStep /\ trace.instr.name = "mret" /\ last.irqState) =>
          (pc = setPc(last.mepc) /\ x = last.x /\ devices = last.devices)

\* C17 amended: a step that enters an interrupt still performs the register or
\* memory update of its instruction and saves mepc = r if taken, pc + 4
\* otherwise; this is the address of the instruction that would have run next
\* unless the interrupted instruction is mret, whose return to the old mepc is
\* replaced by pc + 4.  An mret in a handler resumes at mepc with no other
\* effect.
C17_ExecutedOnce ==
    /\ EnteredIrq =>
          /\ SideEffectsDone
          /\ mepc = IF trace.taken THEN trace.r ELSE trace.incPc
          /\ trace.instr.name # "mret" => setPc(mepc) = WouldBeNext
          /\ trace.instr.name = "mret" => mepc = Plus(last.pc, N(4))
    /\ (IsStep /\ trace.instr.name = "mret" /\ last.irqState) =>
          (pc = setPc(last.mepc) /\ x = last.x /\ devices = last.devices)

\* An interrupt was entered on a jump that wrote its return address register.
C17_Witness == EnteredIrq /\ trace.taken /\ x # last.x

\* This step follows a step that executed mret in a handler, with irq() true.
ReturnedWithIrq ==
    /\ IsStep
    /\ last.prev.op = "step"
    /\ last.prev.name = "mret"
    /\ last.prev.irqState
    /\ last.irq

\* C18: a step that executes mret in a handler only restores pc and clears
\* irqState; if irq() is still true the next step executes the instruction at
\* the restored pc and enters the interrupt again: pc = 4, irqState true and
\* mepc the address after that instruction.
C18_LevelHeldProgress ==
    /\ (IsStep /\ trace.instr.name = "mret" /\ last.irqState) =>
          /\ pc = WordAligned32(last.mepc)
          /\ mepc = last.mepc
          /\ ~irqState
          /\ ~trace.irq
          /\ x = last.x
          /\ devices = last.devices
    /\ ReturnedWithIrq =>
          /\ last.pc = WordAligned32(last.mepc)
          /\ trace.pc = last.pc
          /\ trace.instr = fromWord(BusRead(last.devices, last.error, last.pc, 4, FALSE).value)
          /\ trace.irq
          /\ pc = N(4)
          /\ irqState
          /\ mepc = IF trace.taken THEN trace.r ELSE Plus(last.pc, N(4))

\* After an mret, with irq() held, one instruction of the interrupted program
\* changed a register and the handler was entered again.
C18_Witness ==
    /\ ReturnedWithIrq
    /\ trace.instr.name # "mret"
    /\ x # last.x

\* The instruction is a load (a store).
IsLoad(wbMem) == wbMem \in {"lb", "lh", "lw", "lbu", "lhu"}

IsStore(wbMem) == wbMem \in {"sb", "sh", "sw"}

\* C19: a load whose address no device accepts writes 0 to rd (if writable) and
\* changes nothing else; a store whose address no device accepts changes no
\* register and no device; both report loadStoreError and pc follows the usual
\* rules (a load or store is no branch and no mret).
C19_FailedAccess ==
    (/\ IsStep
     /\ IsLoad(trace.instr.wbMem) \/ IsStore(trace.instr.wbMem)
     /\ NoDevice(trace.r, Width(trace.instr.wbMem))) =>
        /\ devices = last.devices
        /\ x = [i \in DOMAIN last.x |->
                  IF IsLoad(trace.instr.wbMem) /\ i = trace.instr.rd /\ i > 0
                  THEN N(0) ELSE last.x[i]]
        /\ trace.l = N(0)
        /\ trace.loadStoreError
        /\ pc = IF last.irq /\ ~last.irqState THEN N(4)
                ELSE WordAligned32(Plus(last.pc, N(4)))

\* A load failed and overwrote a non-zero register with 0.
C19_Witness ==
    /\ IsStep
    /\ IsLoad(trace.instr.wbMem)
    /\ NoDevice(trace.r, Width(trace.instr.wbMem))
    /\ trace.instr.rd \in 1 .. NX - 1
    /\ last.x[trace.instr.rd] # N(0)
    /\ x[trace.instr.rd] = N(0)

\* C20: reset zeroes every register, pc and mepc and leaves irqState as it
\* was; a step that starts in the handler state enters no interrupt and stays
\* in it unless it executes mret.
C20_ResetKeepsIrqState ==
    /\ last.op = "reset" =>
          /\ \A i \in DOMAIN x : x[i] = N(0)
          /\ pc = N(0)
          /\ mepc = N(0)
          /\ irqState = last.irqState
    /\ (IsStep /\ last.irqState) =>
          /\ ~trace.irq
          /\ irqState = (trace.instr.name # "mret")

\* The step after a reset made in a handler ran with irq() asserted and entered
\* no interrupt.
C20_Witness ==
    /\ IsStep
    /\ last.prev.op = "reset"
    /\ last.prev.irqState
    /\ last.irq
    /\ ~trace.irq
    /\ irqState

====
